---- MODULE Spec2Model ----
(***************************************************************************)
(* Model of the File.ai MCP server (src/fileai-mcp-server.js): the tool    *)
(* call handler, uploadAndProcess with its poll loop, listFiles,           *)
(* getFileDetails and getAllFiles.  Strings are sequences of one-character *)
(* strings, so that basename, the extension-stripping regular expression,  *)
(* toLowerCase and String.includes are computed rather than assumed.       *)
(***************************************************************************)
EXTENDS Integers, Sequences, FiniteSets, TLC

\* ------------------------------------------------------------------ bounds
\* Tool calls the host issues in one run of the server.
MaxCalls == 2
\* Longest listing the backend returns.
MaxFiles == 2

\* ------------------------------------------------- constants of the program
\* const maxAttempts = 20
maxAttempts == 20

\* The invocations the server can hold in flight.
Inv == {1, 2}
\* A host that awaits each answer before its next call uses one of them.
Serial == {1}

\* ------------------------------------------------------------ string helpers
RECURSIVE LastIndexOf(_, _, _)
\* Largest k <= from with s[k] = c, 0 when there is none.
LastIndexOf(s, c, from) ==
    IF from = 0 THEN 0
    ELSE IF s[from] = c THEN from
    ELSE LastIndexOf(s, c, from - 1)

RECURSIVE TrimTrailingSlashes(_)
TrimTrailingSlashes(p) ==
    IF Len(p) > 1 /\ p[Len(p)] = "/" THEN TrimTrailingSlashes(SubSeq(p, 1, Len(p) - 1))
    ELSE p

\* path.basename(filePath): the last segment of a POSIX path.
Basename(p) ==
    LET q == TrimTrailingSlashes(p)
        k == LastIndexOf(q, "/", Len(q))
    IN  IF q = <<"/">> THEN <<>> ELSE SubSeq(q, k + 1, Len(q))

\* A stripping that, as path.extname does, leaves a name alone whose only
\* "." is its first character.
StripExt_keepDotName(name) ==
    LET k == LastIndexOf(name, ".", Len(name))
    IN  IF k > 1 /\ k < Len(name)
           /\ \A j \in (k + 1)..Len(name) : name[j] # "/"
        THEN SubSeq(name, 1, k - 1)
        ELSE name

\* fileName.replace(/\.[^/.]+$/, ""): drop a final ".xyz" whose xyz is
\* non-empty and holds neither "." nor "/".
StripExt(name) ==
    LET k == LastIndexOf(name, ".", Len(name))
    IN  IF k > 0 /\ k < Len(name)
           /\ \A j \in (k + 1)..Len(name) : name[j] # "/"
        THEN SubSeq(name, 1, k - 1)
        ELSE name

\* String.prototype.includes: t occurs in s as a contiguous run.
Includes(s, t) ==
    \E k \in 0..(Len(s) - Len(t)) : SubSeq(s, k + 1, k + Len(t)) = t

\* String.prototype.toLowerCase on the alphabet of the model.
UpperCase == <<"A", "B", "C", "D", "E", "F", "G", "J", "L", "N", "O", "P", "S", "V", "X">>
LowerCase == <<"a", "b", "c", "d", "e", "f", "g", "j", "l", "n", "o", "p", "s", "v", "x">>

LowerChar(c) ==
    IF \E k \in 1..Len(UpperCase) : UpperCase[k] = c
    THEN LowerCase[CHOOSE k \in 1..Len(UpperCase) : UpperCase[k] = c]
    ELSE c

ToLowerCase(s) == [k \in 1..Len(s) |-> LowerChar(s[k])]

\* path.extname(filePath): from the last "." of the last segment on; empty
\* when there is no ".", when the only "." opens the segment, and for "..".
Extname(p) ==
    LET seg == Basename(p)
        k == LastIndexOf(seg, ".", Len(seg))
    IN  IF k <= 1 \/ seg = <<".", ".">> THEN <<>> ELSE SubSeq(seg, k, Len(seg))

\* const fileTypeMap = {...}; a missing key reads as undefined.
FileTypeMap(ext) ==
    CASE ext = <<".", "p", "d", "f">> -> "application/pdf"
      [] ext = <<".", "j", "p", "g">> -> "image/jpeg"
      [] ext = <<".", "j", "p", "e", "g">> -> "image/jpeg"
      [] ext = <<".", "p", "n", "g">> -> "image/png"
      [] ext = <<".", "d", "o", "c", "x">> ->
            "application/vnd.openxmlformats-officedocument.wordprocessingml.document"
      [] ext = <<".", "x", "l", "s", "x">> ->
            "application/vnd.openxmlformats-officedocument.spreadsheetml.sheet"
      [] ext = <<".", "c", "s", "v">> -> "text/csv"
      [] OTHER -> "undefined"

\* A derivation that looks the extension up as it is spelled.
FileType_noLower(filePath) ==
    LET fileExt == Extname(filePath)
    IN  IF FileTypeMap(fileExt) # "undefined" THEN FileTypeMap(fileExt)
        ELSE "application/octet-stream"

\* const fileType = fileTypeMap[fileExt] || "application/octet-stream"
FileType(filePath) ==
    LET fileExt == ToLowerCase(Extname(filePath))
    IN  IF FileTypeMap(fileExt) # "undefined" THEN FileTypeMap(fileExt)
        ELSE "application/octet-stream"

\* --------------------------------------------------------------- input sets
\* filePath arguments of upload_and_process.
FilePaths ==
    { <<"d", "/", "a", ".", "b">>,      \* d/a.b  -> a.b -> a
      <<".", "b">>,                     \* .b     -> .b  -> (empty)
      <<"c">> }                         \* c      -> c   -> c

\* fileName arguments of get_file_details.
LookupNames == { <<"A">>, <<"z">> }

ToolNames == {"upload_and_process", "list_files", "get_file_details", "bogus"}

\* HTTP status codes the backend answers with.
HttpStatuses == {200, 403, 500}

UploadIds == {"u1", "u2"}

\* File names the backend stores.
RecNames == { <<"x", "a", ".", "b">>, <<"c">>, <<"A", ".", "b">> }

RecStatuses == {"pending", "processed"}

Records == [fileName : RecNames, uploadId : UploadIds, status : RecStatuses]

\* JavaScript null / undefined for a record-valued variable.
Null == [fileName |-> <<>>, uploadId |-> "null", status |-> "null"]

RECURSIVE SeqsUpTo(_, _)
SeqsUpTo(S, n) ==
    IF n = 0 THEN { <<>> }
    ELSE LET shorter == SeqsUpTo(S, n - 1)
         IN  shorter \cup { Append(s, x) : s \in { t \in shorter : Len(t) = n - 1 }, x \in S }

Listings == SeqsUpTo(Records, MaxFiles)

\* Bodies of the GET /files response: with a files array, or without the field.
ListBodies == [hasFiles : {TRUE}, files : Listings] \cup { [hasFiles |-> FALSE, files |-> <<>>] }

\* ------------------------------------------------------------ pure functions
\* A lenient success test: only server errors count as failures.
ResponseOk_below500(status) == status >= 200 /\ status < 500

\* response.ok
ResponseOk(status) == status >= 200 /\ status <= 299

\* The predicate without the uploadId rule.
Matches_nameOnly(f, fileName, uploadId) ==
    Includes(f.fileName, StripExt(fileName))

\* The predicate handed to files.find in the poll loop.
Matches(f, fileName, uploadId) ==
    \/ Includes(f.fileName, StripExt(fileName))
    \/ f.uploadId = uploadId

RECURSIVE Find(_, _, _, _)
\* Array.prototype.find from index k on: the first element satisfying the
\* predicate, Null (undefined) when there is none.
Find(files, fileName, uploadId, k) ==
    IF k > Len(files) THEN Null
    ELSE IF Matches(files[k], fileName, uploadId) THEN files[k]
    ELSE Find(files, fileName, uploadId, k + 1)

RECURSIVE FindByRule(_, _, _, _, _)
FindByRule(files, fileName, uploadId, byName, k) ==
    IF k > Len(files) THEN Null
    ELSE IF (IF byName THEN Includes(files[k].fileName, StripExt(fileName))
                       ELSE files[k].uploadId = uploadId)
         THEN files[k]
    ELSE FindByRule(files, fileName, uploadId, byName, k + 1)

\* A two-pass matcher: the whole listing by name, and only then by uploadId.
Match_nameFirst(files, fileName, uploadId) ==
    LET named == FindByRule(files, fileName, uploadId, TRUE, 1)
    IN  IF named # Null THEN named ELSE FindByRule(files, fileName, uploadId, FALSE, 1)

\* processedFile = files.find(...)
Match(files, fileName, uploadId) == Find(files, fileName, uploadId, 1)

\* A loop whose condition is attempts <= maxAttempts.
TickOutcome_offByOne(att, pf) ==
    IF pf # Null /\ pf.status = "processed"
    THEN [attempts |-> att, again |-> FALSE]
    ELSE [attempts |-> att + 1, again |-> (att + 1 <= maxAttempts /\ pf = Null)]

\* A loop that counts the attempt and goes on after a processed match.
TickOutcome_noBreak(att, pf) ==
    [attempts |-> att + 1, again |-> (att + 1 < maxAttempts)]

\* What the end of one loop iteration decides: break on a processed match,
\* otherwise attempts++ and the while condition.
TickOutcome(att, pf) ==
    IF pf # Null /\ pf.status = "processed"
    THEN [attempts |-> att, again |-> FALSE]
    ELSE [attempts |-> att + 1, again |-> (att + 1 < maxAttempts /\ pf = Null)]

\* ------------------------------------------------------------------ results
NoStatus == 0

Report(kind, status, file, uploadId, count) ==
    [isError |-> FALSE, kind |-> kind, status |-> status, file |-> file,
     uploadId |-> uploadId, count |-> count]

\* new Error(message): the message's template and the values it interpolates.
Error(kind, status) == [kind |-> kind, status |-> status]

\* A getAllFiles that answers a failed fetch with an empty listing.
GetAllFiles_swallow(status, body) ==
    [threw |-> FALSE,
     files |-> IF ResponseOk(status) /\ body.hasFiles THEN body.files ELSE <<>>,
     error |-> Error("none", NoStatus)]

\* A getAllFiles that returns result.files as it is: without the field the
\* caller reads a property of undefined and throws a TypeError.
GetAllFiles_noDefault(status, body) ==
    IF ResponseOk(status) /\ body.hasFiles
    THEN [threw |-> FALSE, files |-> body.files, error |-> Error("none", NoStatus)]
    ELSE IF ResponseOk(status)
    THEN [threw |-> TRUE, files |-> <<>>, error |-> Error("TypeError", NoStatus)]
    ELSE [threw |-> TRUE, files |-> <<>>, error |-> Error("FailedToGetFiles", status)]

\* getAllFiles: throws on a response that is not ok, otherwise result.files || [].
GetAllFiles(status, body) ==
    IF ResponseOk(status)
    THEN [threw |-> FALSE, files |-> IF body.hasFiles THEN body.files ELSE <<>>,
          error |-> Error("none", NoStatus)]
    ELSE [threw |-> TRUE, files |-> <<>>, error |-> Error("FailedToGetFiles", status)]

\* A result that reports the matched record's uploadId as the upload's.
ShapeResult_recordId(pf, uploadId) ==
    IF pf # Null /\ pf.status = "processed"
    THEN Report("Resolved", NoStatus, pf, pf.uploadId, 0)
    ELSE Report("Pending", NoStatus, Null, uploadId, 0)

\* The result after the poll loop.
ShapeResult(pf, uploadId) ==
    IF pf # Null /\ pf.status = "processed"
    THEN Report("Resolved", NoStatus, pf, uploadId, 0)
    ELSE Report("Pending", NoStatus, Null, uploadId, 0)

\* The catch block of the CallToolRequestSchema handler.
Caught(error) ==
    [isError |-> TRUE, kind |-> error.kind, status |-> error.status, file |-> Null,
     uploadId |-> "null", count |-> 0]

NoReply == [settled |-> "none", value |-> Report("none", NoStatus, Null, "null", 0)]

\* A handler whose default case throws outside the try block.
CallToolHandler_rethrow(outcome) ==
    IF outcome.threw /\ outcome.error.kind = "UnknownTool"
    THEN [settled |-> "rejected", value |-> NoReply.value]
    ELSE IF outcome.threw
    THEN [settled |-> "fulfilled", value |-> Caught(outcome.error)]
    ELSE [settled |-> "fulfilled", value |-> outcome.value]

\* What the handler's promise settles to, given what the tool method did.
CallToolHandler(outcome) ==
    IF outcome.threw
    THEN [settled |-> "fulfilled", value |-> Caught(outcome.error)]
    ELSE [settled |-> "fulfilled", value |-> outcome.value]

Returned(value) == [threw |-> FALSE, value |-> value, error |-> Error("none", NoStatus)]
Threw(error) == [threw |-> TRUE, value |-> NoReply.value, error |-> error]

\* -------------------------------------------------------------------- state
VARIABLES
    pc,             \* where each invocation is suspended
    tool,           \* request.params.name
    arg,            \* args.filePath or args.fileName
    fileName,       \* const fileName = path.basename(filePath)
    uploadData,     \* the ticket: uploadData.uploadId
    response,       \* the last HTTP response received, or the rejection of fs.access
    attempts,       \* let attempts
    processedFile,  \* let processedFile
    result,         \* const result = await response.json(), in listFiles and getFileDetails
    calls,          \* remote operations the invocation has issued
    reply,          \* what the handler's promise settled to
    started,        \* tool calls received so far
    log,            \* tool calls answered so far, and whether the last one failed
    m               \* the matcher on its own: its arguments and its result

vars == <<pc, tool, arg, fileName, uploadData, response, attempts, processedFile,
          result, calls, reply, started, log, m>>

server == <<pc, tool, arg, fileName, uploadData, response, attempts, processedFile,
            result, calls, reply, started, log>>

\* The matcher's arguments before it ran.
MatcherArgs(files, name, uploadId) ==
    [phase |-> "args", files |-> files, fileName |-> name, uploadId |-> uploadId,
     result |-> Null]

NoCalls == [register |-> 0, transfer |-> 0, sleep |-> 0, list |-> 0]
NoResponse == [of |-> "none", status |-> NoStatus]
\* No body parsed: before the response, and after a response that is not ok.
NoResult == [hasFiles |-> FALSE, files |-> <<Null>>]

Init ==
    /\ pc = [i \in Inv |-> "idle"]
    /\ tool = [i \in Inv |-> "none"]
    /\ arg = [i \in Inv |-> <<>>]
    /\ fileName = [i \in Inv |-> <<>>]
    /\ uploadData = [i \in Inv |-> "null"]
    /\ response = [i \in Inv |-> NoResponse]
    /\ attempts = [i \in Inv |-> 0]
    /\ processedFile = [i \in Inv |-> Null]
    /\ result = [i \in Inv |-> NoResult]
    /\ calls = [i \in Inv |-> NoCalls]
    /\ reply = [i \in Inv |-> NoReply]
    /\ started = 0
    /\ log = [answered |-> 0, lastWasError |-> FALSE]
    /\ m = MatcherArgs(<<>>, <<>>, "null")

Bump(c, field) == [c EXCEPT ![field] = @ + 1]

\* A handler that keeps its answer in a field of the server object, which
\* every invocation in flight then reads.
Settle_shared(i, outcome) ==
    /\ reply' = [j \in Inv |-> CallToolHandler(outcome)]
    /\ pc' = [pc EXCEPT ![i] = "done"]

\* The handler settles: the tool method returned or threw.
Settle(i, outcome) ==
    /\ reply' = [reply EXCEPT ![i] = CallToolHandler(outcome)]
    /\ pc' = [pc EXCEPT ![i] = "done"]

\* The bodies a response of the given status is parsed to: response.json() is
\* called on an ok response only.
BodiesOf(status) == IF ResponseOk(status) THEN ListBodies ELSE {NoResult}

\* ------------------------------------------------------------------ actions
\* A tools/call request arrives: the switch of the handler, up to the first
\* await of the tool method.
CallTool(i, name, a) ==
    /\ pc[i] = "idle"
    /\ started < MaxCalls
    /\ started' = started + 1
    /\ tool' = [tool EXCEPT ![i] = name]
    /\ arg' = [arg EXCEPT ![i] = a]
    /\ CASE name = "upload_and_process" ->
              /\ pc' = [pc EXCEPT ![i] = "access"]
              /\ calls' = [calls EXCEPT ![i] = NoCalls]
              /\ reply' = [reply EXCEPT ![i] = NoReply]
         [] name \in {"list_files", "get_file_details"} ->
              /\ pc' = [pc EXCEPT ![i] = "getAllFiles"]
              /\ calls' = [calls EXCEPT ![i] = Bump(NoCalls, "list")]
              /\ reply' = [reply EXCEPT ![i] = NoReply]
         [] OTHER ->
              /\ calls' = [calls EXCEPT ![i] = NoCalls]
              /\ Settle(i, Threw(Error("UnknownTool", NoStatus)))
    /\ UNCHANGED <<fileName, uploadData, response, attempts, processedFile, log>>
    /\ UNCHANGED <<result, m>>

\* An uploadAndProcess that sends the registration before looking at what
\* fs.access answered.
Access_registerFirst(i, exists) ==
    /\ pc[i] = "access"
    /\ fileName' = [fileName EXCEPT ![i] = Basename(arg[i])]
    /\ calls' = [calls EXCEPT ![i] = Bump(@, "register")]
    /\ response' = [response EXCEPT ![i] =
                        IF exists THEN @ ELSE [of |-> "access", status |-> NoStatus]]
    /\ pc' = [pc EXCEPT ![i] = "register"]
    /\ UNCHANGED <<tool, arg, uploadData, attempts, processedFile, reply, started, log>>
    /\ UNCHANGED <<result, m>>

\* await fs.access(filePath) settles; on success the registration POST is sent.
\* A rejection is kept in response, as the failed answers of the backend are.
Access(i, exists) ==
    /\ pc[i] = "access"
    /\ IF exists
       THEN /\ fileName' = [fileName EXCEPT ![i] = Basename(arg[i])]
            /\ calls' = [calls EXCEPT ![i] = Bump(@, "register")]
            /\ pc' = [pc EXCEPT ![i] = "register"]
            /\ UNCHANGED <<reply, response>>
       ELSE /\ response' = [response EXCEPT ![i] = [of |-> "access", status |-> NoStatus]]
            /\ Settle(i, Threw(Error("FileNotFound", NoStatus)))
            /\ UNCHANGED <<fileName, calls>>
    /\ UNCHANGED <<tool, arg, uploadData, attempts, processedFile, started, log>>
    /\ UNCHANGED <<result, m>>

\* The registration response arrives; on success fs.readFile is awaited.
Register(i, status, uploadId) ==
    /\ pc[i] = "register"
    /\ response' = [response EXCEPT ![i] = [of |-> "register", status |-> status]]
    /\ IF ResponseOk(status)
       THEN /\ uploadData' = [uploadData EXCEPT ![i] = uploadId]
            /\ pc' = [pc EXCEPT ![i] = "readFile"]
            /\ UNCHANGED reply
       ELSE /\ Settle(i, Threw(Error("UploadRequestFailed", status)))
            /\ UNCHANGED uploadData
    /\ UNCHANGED <<tool, arg, fileName, attempts, processedFile, calls, started, log>>
    /\ UNCHANGED <<result, m>>

\* await fs.readFile(filePath) settles; on success the PUT is sent.
ReadFile(i, readable) ==
    /\ pc[i] = "readFile"
    /\ IF readable
       THEN /\ calls' = [calls EXCEPT ![i] = Bump(@, "transfer")]
            /\ pc' = [pc EXCEPT ![i] = "transfer"]
            /\ UNCHANGED reply
       ELSE /\ Settle(i, Threw(Error("ReadFailed", NoStatus)))
            /\ UNCHANGED calls
    /\ UNCHANGED <<tool, arg, fileName, uploadData, response, attempts, processedFile,
                   started, log>>
    /\ UNCHANGED <<result, m>>

\* A loop body that fetches the listing before it sleeps.
Transfer_noSleep(i, status) ==
    /\ pc[i] = "transfer"
    /\ response' = [response EXCEPT ![i] = [of |-> "transfer", status |-> status]]
    /\ IF ResponseOk(status)
       THEN /\ attempts' = [attempts EXCEPT ![i] = 0]
            /\ processedFile' = [processedFile EXCEPT ![i] = Null]
            /\ calls' = [calls EXCEPT ![i] = Bump(@, "list")]
            /\ pc' = [pc EXCEPT ![i] = "poll"]
            /\ UNCHANGED reply
       ELSE /\ Settle(i, Threw(Error("FileUploadFailed", status)))
            /\ UNCHANGED <<attempts, processedFile, calls>>
    /\ UNCHANGED <<tool, arg, fileName, uploadData, started, log>>
    /\ UNCHANGED <<result, m>>

\* An upload that sends the PUT again after a failed one.
Transfer_retry(i, status) ==
    /\ pc[i] = "transfer"
    /\ response' = [response EXCEPT ![i] = [of |-> "transfer", status |-> status]]
    /\ IF ResponseOk(status)
       THEN /\ attempts' = [attempts EXCEPT ![i] = 0]
            /\ processedFile' = [processedFile EXCEPT ![i] = Null]
            /\ calls' = [calls EXCEPT ![i] = Bump(@, "sleep")]
            /\ pc' = [pc EXCEPT ![i] = "sleep"]
            /\ UNCHANGED reply
       ELSE IF calls[i].transfer < 2
       THEN /\ calls' = [calls EXCEPT ![i] = Bump(@, "transfer")]
            /\ UNCHANGED <<attempts, processedFile, pc, reply>>
       ELSE /\ Settle(i, Threw(Error("FileUploadFailed", status)))
            /\ UNCHANGED <<attempts, processedFile, calls>>
    /\ UNCHANGED <<tool, arg, fileName, uploadData, started, log>>
    /\ UNCHANGED <<result, m>>

\* The PUT response arrives; on success the loop is entered and the first
\* timer is set.
Transfer(i, status) ==
    /\ pc[i] = "transfer"
    /\ response' = [response EXCEPT ![i] = [of |-> "transfer", status |-> status]]
    /\ IF ResponseOk(status)
       THEN /\ attempts' = [attempts EXCEPT ![i] = 0]
            /\ processedFile' = [processedFile EXCEPT ![i] = Null]
            /\ calls' = [calls EXCEPT ![i] = Bump(@, "sleep")]
            /\ pc' = [pc EXCEPT ![i] = "sleep"]
            /\ UNCHANGED reply
       ELSE /\ Settle(i, Threw(Error("FileUploadFailed", status)))
            /\ UNCHANGED <<attempts, processedFile, calls>>
    /\ UNCHANGED <<tool, arg, fileName, uploadData, started, log>>
    /\ UNCHANGED <<result, m>>

\* The 15 s timer fires: getAllFiles sends its GET.
Sleep(i) ==
    /\ pc[i] = "sleep"
    /\ calls' = [calls EXCEPT ![i] = Bump(@, "list")]
    /\ pc' = [pc EXCEPT ![i] = "poll"]
    /\ UNCHANGED <<tool, arg, fileName, uploadData, response, attempts, processedFile,
                   reply, started, log>>
    /\ UNCHANGED <<result, m>>

\* A tick that answers a failed fetch by fetching again, for as long as the
\* fetch fails.
Poll_retryFailedFetch(i, status, body) ==
    /\ pc[i] = "poll"
    /\ response' = [response EXCEPT ![i] = [of |-> "list", status |-> status]]
    /\ LET got == GetAllFiles(status, body)
           pf == Match(got.files, fileName[i], uploadData[i])
           out == TickOutcome(attempts[i], pf)
       IN  IF got.threw
           THEN UNCHANGED <<attempts, processedFile, calls, pc, reply>>
           ELSE /\ processedFile' = [processedFile EXCEPT ![i] = pf]
                /\ attempts' = [attempts EXCEPT ![i] = out.attempts]
                /\ IF out.again
                   THEN /\ calls' = [calls EXCEPT ![i] = Bump(@, "sleep")]
                        /\ pc' = [pc EXCEPT ![i] = "sleep"]
                        /\ UNCHANGED reply
                   ELSE /\ Settle(i, Returned(ShapeResult(pf, uploadData[i])))
                        /\ UNCHANGED calls
    /\ UNCHANGED <<tool, arg, fileName, uploadData, started, log>>
    /\ UNCHANGED <<result, m>>

\* The listing arrives inside the poll loop: match, then break, or count the
\* attempt and test the loop condition; after the loop the result is shaped.
\* The tick consumes the parsed body at once: only processedFile outlives it.
Poll(i, status, body) ==
    /\ pc[i] = "poll"
    /\ response' = [response EXCEPT ![i] = [of |-> "list", status |-> status]]
    /\ LET got == GetAllFiles(status, body)
           pf == Match(got.files, fileName[i], uploadData[i])
           out == TickOutcome(attempts[i], pf)
       IN  IF got.threw
           THEN /\ Settle(i, Threw(got.error))
                /\ UNCHANGED <<attempts, processedFile, calls>>
           ELSE /\ processedFile' = [processedFile EXCEPT ![i] = pf]
                /\ attempts' = [attempts EXCEPT ![i] = out.attempts]
                /\ IF out.again
                   THEN /\ calls' = [calls EXCEPT ![i] = Bump(@, "sleep")]
                        /\ pc' = [pc EXCEPT ![i] = "sleep"]
                        /\ UNCHANGED reply
                   ELSE /\ Settle(i, Returned(ShapeResult(pf, uploadData[i])))
                        /\ UNCHANGED calls
    /\ UNCHANGED <<tool, arg, fileName, uploadData, started, log>>
    /\ UNCHANGED <<result, m>>

\* The predicate without the two toLowerCase calls.
NameMatches_caseSensitive(f, name) == Includes(f.fileName, name)

\* The predicate handed to files.find in getFileDetails.
NameMatches(f, name) == Includes(ToLowerCase(f.fileName), ToLowerCase(name))

RECURSIVE FindByName(_, _, _)
FindByName(files, name, k) ==
    IF k > Len(files) THEN Null
    ELSE IF NameMatches(files[k], name) THEN files[k]
    ELSE FindByName(files, name, k + 1)

\* listFiles after getAllFiles returned.
ListFilesResult(files) ==
    IF Len(files) = 0
    THEN Returned(Report("NoFiles", NoStatus, Null, "null", 0))
    ELSE Returned(Report("FileList", NoStatus, Null, "null", Len(files)))

\* getFileDetails after getAllFiles returned.
FileDetailsResult(files, name) ==
    LET file == FindByName(files, name, 1)
    IN  IF file = Null
        THEN Threw(Error("FileNotFound", NoStatus))
        ELSE Returned(Report("Details", NoStatus, file, file.uploadId, 0))

\* The listing arrives in listFiles.
ListFiles(i, status, body) ==
    /\ pc[i] = "getAllFiles"
    /\ tool[i] = "list_files"
    /\ response' = [response EXCEPT ![i] = [of |-> "list", status |-> status]]
    /\ LET got == GetAllFiles(status, body)
       IN  IF got.threw
           THEN Settle(i, Threw(got.error))
           ELSE Settle(i, ListFilesResult(got.files))
    /\ UNCHANGED <<tool, arg, fileName, uploadData, attempts, processedFile, calls,
                   started, log>>
    /\ result' = [result EXCEPT ![i] = IF ResponseOk(status) THEN body ELSE NoResult]
    /\ UNCHANGED m

\* The listing arrives in getFileDetails.
GetFileDetails(i, status, body) ==
    /\ pc[i] = "getAllFiles"
    /\ tool[i] = "get_file_details"
    /\ response' = [response EXCEPT ![i] = [of |-> "list", status |-> status]]
    /\ LET got == GetAllFiles(status, body)
       IN  IF got.threw
           THEN Settle(i, Threw(got.error))
           ELSE Settle(i, FileDetailsResult(got.files, arg[i]))
    /\ UNCHANGED <<tool, arg, fileName, uploadData, attempts, processedFile, calls,
                   started, log>>
    /\ result' = [result EXCEPT ![i] = IF ResponseOk(status) THEN body ELSE NoResult]
    /\ UNCHANGED m

\* The host receives the answer; the invocation and its locals are over.
Respond(i) ==
    /\ pc[i] = "done"
    /\ log' = [answered |-> log.answered + 1,
               lastWasError |-> reply[i].value.isError]
    /\ pc' = [pc EXCEPT ![i] = "idle"]
    /\ tool' = [tool EXCEPT ![i] = "none"]
    /\ arg' = [arg EXCEPT ![i] = <<>>]
    /\ fileName' = [fileName EXCEPT ![i] = <<>>]
    /\ uploadData' = [uploadData EXCEPT ![i] = "null"]
    /\ response' = [response EXCEPT ![i] = NoResponse]
    /\ attempts' = [attempts EXCEPT ![i] = 0]
    /\ processedFile' = [processedFile EXCEPT ![i] = Null]
    /\ calls' = [calls EXCEPT ![i] = NoCalls]
    /\ reply' = [reply EXCEPT ![i] = NoReply]
    /\ UNCHANGED started
    /\ result' = [result EXCEPT ![i] = NoResult]
    /\ UNCHANGED m

Next ==
    \/ \E i \in Serial, name \in ToolNames, a \in FilePaths \cup LookupNames \cup { <<>> } :
          /\ name = "upload_and_process" => a \in FilePaths
          /\ name = "get_file_details" => a \in LookupNames
          /\ name \in {"list_files", "bogus"} => a = <<>>
          /\ CallTool(i, name, a)
    \/ \E i \in Serial, exists \in BOOLEAN : Access(i, exists)
    \/ \E i \in Serial, status \in HttpStatuses, uploadId \in UploadIds : Register(i, status, uploadId)
    \/ \E i \in Serial, readable \in BOOLEAN : ReadFile(i, readable)
    \/ \E i \in Serial, status \in HttpStatuses : Transfer(i, status)
    \/ \E i \in Serial : Sleep(i)
    \/ \E i \in Serial, status \in HttpStatuses : \E body \in BodiesOf(status) : Poll(i, status, body)
    \/ \E i \in Serial, status \in HttpStatuses : \E body \in BodiesOf(status) : ListFiles(i, status, body)
    \/ \E i \in Serial, status \in HttpStatuses : \E body \in BodiesOf(status) : GetFileDetails(i, status, body)
    \/ \E i \in Serial : Respond(i)

Spec == Init /\ [][Next]_vars

\* ------------------------------------------------------- the matcher alone
\* The names uploadAndProcess hands to the matcher.
UploadNames == { Basename(p) : p \in FilePaths }

InitMatch ==
    /\ pc = [i \in Inv |-> "idle"]
    /\ tool = [i \in Inv |-> "none"]
    /\ arg = [i \in Inv |-> <<>>]
    /\ fileName = [i \in Inv |-> <<>>]
    /\ uploadData = [i \in Inv |-> "null"]
    /\ response = [i \in Inv |-> NoResponse]
    /\ attempts = [i \in Inv |-> 0]
    /\ processedFile = [i \in Inv |-> Null]
    /\ result = [i \in Inv |-> NoResult]
    /\ calls = [i \in Inv |-> NoCalls]
    /\ reply = [i \in Inv |-> NoReply]
    /\ started = 0
    /\ log = [answered |-> 0, lastWasError |-> FALSE]
    /\ \E files \in Listings, name \in UploadNames, uploadId \in UploadIds :
          m = MatcherArgs(files, name, uploadId)

\* processedFile = files.find(...) applied to the drawn arguments.
RunMatch ==
    /\ m.phase = "args"
    /\ m' = [m EXCEPT !.phase = "result",
                      !.result = Match(m.files, m.fileName, m.uploadId)]
    /\ UNCHANGED server

\* The rest of the tick and the result it would end the upload with, for a
\* tick entered with att attempts counted.
RunTick(att) ==
    /\ m.phase = "result"
    /\ m' = [phase |-> "tick", files |-> m.files, fileName |-> m.fileName,
             uploadId |-> m.uploadId, result |-> m.result, att |-> att,
             out |-> TickOutcome(att, m.result),
             shaped |-> ShapeResult(m.result, m.uploadId)]
    /\ UNCHANGED server

NextMatch ==
    \/ RunMatch
    \/ \E att \in {0, maxAttempts - 1} : RunTick(att)

SpecMatch == InitMatch /\ [][NextMatch]_vars

\* ---------------------------------------------------------------- the claims
Uploading(i) == tool[i] = "upload_and_process"
Failed(status) == status \notin 200..299
Processed(f) == f # Null /\ f.status = "processed"

\* C1: a poll tick that matches a record whose status is not 'processed' does
\* not end the loop: with fewer than maxAttempts ticks performed, the next
\* sleep follows, as after a tick that matched nothing.
C1_PendingMatchContinues ==
    [][\A i \in Inv :
         (/\ pc[i] = "poll"
          /\ pc'[i] # "poll"
          /\ ~reply'[i].value.isError
          /\ processedFile'[i] # Null
          /\ processedFile'[i].status # "processed"
          /\ calls[i].list < maxAttempts)
         => (pc'[i] = "sleep" /\ calls'[i].sleep = calls[i].sleep + 1)]_vars

\* C2: when no tick yields a processed match and no listing fetch fails - the
\* upload ends Pending - the loop has performed exactly maxAttempts ticks.
C2_PendingOnlyAfterAllTicks ==
    \A i \in Inv :
        (Uploading(i) /\ pc[i] = "done" /\ reply[i].value.kind = "Pending")
        => (calls[i].list = maxAttempts /\ calls[i].sleep = maxAttempts)

\* C3: the tick that yields a processed match is the last one: once the loop
\* holds a processed record the invocation is over, having performed as many
\* sleeps as listing fetches, one more than the attempts counted before it.
C3_ProcessedMatchExits ==
    \A i \in Inv :
        (Uploading(i) /\ Processed(processedFile[i]))
        => /\ pc[i] = "done"
           /\ calls[i].list = attempts[i] + 1
           /\ calls[i].sleep = calls[i].list
           /\ calls[i].list <= maxAttempts

C3_Witness ==
    \E i \in Inv :
        /\ Uploading(i) /\ pc[i] = "done" /\ Processed(processedFile[i])
        /\ calls[i].list = 3

\* C4: an upload whose loop ended without an error is Resolved exactly when
\* the loop holds a processed record, then carrying that record and the
\* ticket's uploadId; otherwise it is Pending with the ticket's uploadId and
\* no record; it is never an error.
C4_ResultShape ==
    \A i \in Inv :
        (/\ Uploading(i) /\ pc[i] = "done"
         /\ response[i].of = "list" /\ ~Failed(response[i].status))
        => LET r == reply[i].value
           IN  /\ ~r.isError
               /\ r.kind \in {"Resolved", "Pending"}
               /\ r.kind = "Resolved" <=> Processed(processedFile[i])
               /\ r.uploadId = uploadData[i]
               /\ r.kind = "Resolved" => r.file = processedFile[i]
               /\ r.kind = "Pending" => r.file = Null

C4_Witness ==
    \E i \in Inv :
        /\ Uploading(i) /\ pc[i] = "done"
        /\ reply[i].value.kind = "Resolved"
        /\ reply[i].value.file.uploadId # uploadData[i]
        /\ reply[i].value.uploadId = uploadData[i]

\* C5: a failed registration ends the upload with an error carrying the
\* response's status before any transfer, sleep or listing fetch; a failed
\* transfer ends it with an error carrying that status before any sleep or
\* listing fetch.
C5_RemoteWriteFailureAborts ==
    \A i \in Inv :
        (Uploading(i) /\ response[i].of \in {"register", "transfer"}
                      /\ Failed(response[i].status))
        => /\ pc[i] = "done"
           /\ reply[i].value.isError
           /\ reply[i].value.status = response[i].status
           /\ reply[i].value.kind =
                 (IF response[i].of = "register" THEN "UploadRequestFailed"
                                                 ELSE "FileUploadFailed")
           /\ calls[i].transfer = (IF response[i].of = "register" THEN 0 ELSE 1)
           /\ calls[i].sleep = 0
           /\ calls[i].list = 0

C5_Witness ==
    \E i \in Inv :
        /\ Uploading(i) /\ pc[i] = "done"
        /\ response[i] = [of |-> "register", status |-> 403]
        /\ reply[i].value.status = 403

\* C6: a failed listing fetch in the poll loop ends the upload with an error
\* carrying the response's status; the failed tick is not counted as an
\* attempt and no further tick follows.
C6_ListFailureAborts ==
    \A i \in Inv :
        (Uploading(i) /\ response[i].of = "list" /\ Failed(response[i].status))
        => /\ pc[i] = "done"
           /\ reply[i].value.isError
           /\ reply[i].value.kind = "FailedToGetFiles"
           /\ reply[i].value.status = response[i].status
           /\ calls[i].list = attempts[i] + 1
           /\ calls[i].sleep = calls[i].list

C6_Witness ==
    \E i \in Inv :
        /\ Uploading(i) /\ pc[i] = "done"
        /\ response[i].of = "list" /\ Failed(response[i].status)
        /\ calls[i].list = maxAttempts

\* The two rules of the matcher, for the arguments in m.
NameRule(f) == Includes(f.fileName, StripExt(m.fileName))
IdRule(f) == f.uploadId = m.uploadId
Listed(f) == \E k \in 1..Len(m.files) : m.files[k] = f

\* C7: the matcher returns a record exactly when some record of the listing
\* satisfies name containment or carries the ticket's uploadId; the record it
\* returns is one of the listing that satisfies a rule; it is null when no
\* record satisfies either.
C7_MatchIffSomeRule ==
    m.phase = "result"
    => /\ m.result # Null <=> \E k \in 1..Len(m.files) :
                                  NameRule(m.files[k]) \/ IdRule(m.files[k])
       /\ m.result # Null
             => Listed(m.result) /\ (NameRule(m.result) \/ IdRule(m.result))

C7_Witness ==
    /\ m.phase = "result"
    /\ m.result # Null
    /\ IdRule(m.result) /\ ~NameRule(m.result)
    /\ \A k \in 1..Len(m.files) : ~NameRule(m.files[k])

\* C8 as stated: whenever some record satisfies name containment, the matcher
\* returns the first such record.
C8_NameRuleFirst ==
    m.phase = "result"
    => \A k \in 1..Len(m.files) :
          (NameRule(m.files[k]) /\ \A j \in 1..(k - 1) : ~NameRule(m.files[j]))
          => m.result = m.files[k]

\* C8 as amended: the matcher returns the first record in listing order that
\* satisfies either rule; a record satisfying only the uploadId rule is
\* returned only when no record before it satisfies name containment.
C8_FirstOfEitherRule ==
    m.phase = "result"
    => /\ \A k \in 1..Len(m.files) :
             (/\ NameRule(m.files[k]) \/ IdRule(m.files[k])
              /\ \A j \in 1..(k - 1) : ~NameRule(m.files[j]) /\ ~IdRule(m.files[j]))
             => m.result = m.files[k]
       /\ (m.result # Null /\ ~NameRule(m.result))
             => \E k \in 1..Len(m.files) :
                   /\ m.files[k] = m.result
                   /\ \A j \in 1..(k - 1) : ~NameRule(m.files[j])

C8_Witness ==
    /\ m.phase = "result"
    /\ Len(m.files) = 2
    /\ IdRule(m.files[1]) /\ ~NameRule(m.files[1])
    /\ NameRule(m.files[2]) /\ ~IdRule(m.files[2])
    /\ m.result = m.files[1]

\* C9: whenever the listing holds a record with the ticket's uploadId, the
\* matcher selects a record with that uploadId.
C9_UploadIdAuthoritative ==
    m.phase = "result"
    => ((\E k \in 1..Len(m.files) : IdRule(m.files[k])) => IdRule(m.result))

ErrorKinds == {"FileNotFound", "UploadRequestFailed", "ReadFailed", "FileUploadFailed",
               "FailedToGetFiles", "UnknownTool"}

\* C10: every tool call is answered by a fulfilled handler, and whenever the
\* tool method failed - a missing or unreadable file, a failed registration,
\* transfer or listing, a lookup without a match, an unknown tool - the answer
\* is flagged as an error; this holds for the call after a failed one too.
C10_ErrorsAreReported ==
    \A i \in Inv :
        /\ pc[i] # "done" => reply[i] = NoReply
        /\ pc[i] = "done"
             => /\ reply[i].settled = "fulfilled"
                /\ reply[i].value.kind \in ErrorKinds <=> reply[i].value.isError
                /\ tool[i] \notin {"upload_and_process", "list_files", "get_file_details"}
                      => reply[i].value.isError /\ reply[i].value.kind = "UnknownTool"
                /\ (Uploading(i) /\ calls[i].register = 0)
                      => reply[i].value.isError /\ reply[i].value.kind = "FileNotFound"
                /\ Failed(response[i].status) /\ response[i].of # "none"
                      => reply[i].value.isError

C10_Witness ==
    \E i \in Inv :
        /\ log.lastWasError
        /\ pc[i] = "done"
        /\ reply[i].value.kind = "Resolved"

FilesOf(body) == IF body.hasFiles THEN body.files ELSE <<>>
\* The places of the listing whose name contains the lookup name, letter case
\* set aside.
Hits(fs, name) ==
    { k \in 1..Len(fs) : Includes(ToLowerCase(fs[k].fileName), ToLowerCase(name)) }
First(S) == CHOOSE k \in S : \A j \in S : k <= j

\* C12: get_file_details fetches the listing once; answered with a listing,
\* it reports the first record in listing order whose fileName contains the
\* given name compared case-insensitively, and fails with the not-found error
\* when no record does, an empty listing included.
C12_DetailsOfFirstHit ==
    \A i \in Inv :
        (tool[i] = "get_file_details" /\ pc[i] = "done")
        => /\ calls[i] = [register |-> 0, transfer |-> 0, sleep |-> 0, list |-> 1]
           /\ ~Failed(response[i].status)
                 => LET fs == FilesOf(result[i])
                        hits == Hits(fs, arg[i])
                        r == reply[i].value
                    IN  IF hits = {}
                        THEN r.isError /\ r.kind = "FileNotFound"
                        ELSE ~r.isError /\ r.kind = "Details" /\ r.file = fs[First(hits)]

C12_Witness ==
    \E i \in Inv :
        /\ tool[i] = "get_file_details" /\ pc[i] = "done"
        /\ arg[i] = <<"A">>
        /\ Len(FilesOf(result[i])) = 2
        /\ Hits(FilesOf(result[i]), arg[i]) = {2}
        /\ reply[i].value.file.fileName = <<"x", "a", ".", "b">>

\* C13: a successful listing response without files - an empty array or no
\* files field - gives the callers an empty sequence: list_files answers with
\* the 'no files' notice, not flagged as an error, and get_file_details with
\* its own not-found error.
C13_EmptyListingIsNoError ==
    \A i \in Inv :
        (/\ tool[i] \in {"list_files", "get_file_details"} /\ pc[i] = "done"
         /\ ~Failed(response[i].status)
         /\ (~result[i].hasFiles \/ result[i].files = <<>>))
        => /\ GetAllFiles(response[i].status, result[i]).files = <<>>
           /\ ~GetAllFiles(response[i].status, result[i]).threw
           /\ tool[i] = "list_files"
                 => ~reply[i].value.isError /\ reply[i].value.kind = "NoFiles"
           /\ tool[i] = "get_file_details"
                 => reply[i].value.isError /\ reply[i].value.kind = "FileNotFound"

C13_Witness ==
    \E i \in Inv :
        /\ tool[i] = "list_files" /\ pc[i] = "done"
        /\ ~Failed(response[i].status)
        /\ ~result[i].hasFiles
        /\ reply[i].value.kind = "NoFiles" /\ ~reply[i].value.isError

\* ------------------------------------------------- the content type alone
\* File paths put together from a directory, a stem and an extension.
TypeDirs == { <<>>, <<"d", "/">>, <<"d", ".", "x", "/">> }
TypeStems == { <<"a">>, <<"a", ".", "b">>, <<>> }
TypeExts ==
    { <<".", "p", "d", "f">>, <<".", "j", "p", "g">>, <<".", "j", "p", "e", "g">>,
      <<".", "p", "n", "g">>, <<".", "d", "o", "c", "x">>, <<".", "x", "l", "s", "x">>,
      <<".", "c", "s", "v">>,
      <<".", "P", "D", "F">>, <<".", "J", "p", "g">>, <<".", "J", "P", "E", "G">>,
      <<".", "P", "n", "g">>, <<".", "D", "O", "C", "X">>, <<".", "X", "l", "s", "x">>,
      <<".", "C", "S", "V">>,
      <<".", "t", "x", "t">>, <<".", "p", "d", "f", "x">>, <<".", "p", "d">>,
      <<".">>, <<>> }

\* The arguments of the derivation before it ran.
TypeArgs(dir, stem, ext) ==
    [phase |-> "args", dir |-> dir, stem |-> stem, ext |-> ext,
     filePath |-> dir \o stem \o ext,
     registered |-> "none", put |-> "none"]

InitType ==
    /\ pc = [i \in Inv |-> "idle"]
    /\ tool = [i \in Inv |-> "none"]
    /\ arg = [i \in Inv |-> <<>>]
    /\ fileName = [i \in Inv |-> <<>>]
    /\ uploadData = [i \in Inv |-> "null"]
    /\ response = [i \in Inv |-> NoResponse]
    /\ attempts = [i \in Inv |-> 0]
    /\ processedFile = [i \in Inv |-> Null]
    /\ result = [i \in Inv |-> NoResult]
    /\ calls = [i \in Inv |-> NoCalls]
    /\ reply = [i \in Inv |-> NoReply]
    /\ started = 0
    /\ log = [answered |-> 0, lastWasError |-> FALSE]
    /\ \E dir \in TypeDirs, stem \in TypeStems, ext \in TypeExts :
          m = TypeArgs(dir, stem, ext)

\* fileType as the registration body and the Content-Type header of the PUT
\* carry it.
RunType ==
    /\ m.phase = "args"
    /\ m' = [m EXCEPT !.phase = "result",
                      !.registered = FileType(m.filePath),
                      !.put = FileType(m.filePath)]
    /\ UNCHANGED server

NextType == RunType

SpecType == InitType /\ [][NextType]_vars

\* The content type the static map gives an extension spelled in lower case.
MappedType(ext) ==
    CASE ext \in { <<".", "j", "p", "g">>, <<".", "j", "p", "e", "g">> } -> "image/jpeg"
      [] ext = <<".", "p", "d", "f">> -> "application/pdf"
      [] ext = <<".", "p", "n", "g">> -> "image/png"
      [] ext = <<".", "d", "o", "c", "x">> ->
            "application/vnd.openxmlformats-officedocument.wordprocessingml.document"
      [] ext = <<".", "x", "l", "s", "x">> ->
            "application/vnd.openxmlformats-officedocument.spreadsheetml.sheet"
      [] ext = <<".", "c", "s", "v">> -> "text/csv"
      [] OTHER -> "application/octet-stream"

\* C14: a file whose name is a non-empty stem followed by an extension of the
\* static map, in any letter case, is registered and transferred with the
\* mapped content type; a file with any other extension, with none, or whose
\* whole name is a dot-name is registered and transferred as
\* application/octet-stream.
C14_ContentType ==
    m.phase = "result"
    => LET expected == IF m.stem # <<>> THEN MappedType(ToLowerCase(m.ext))
                       ELSE "application/octet-stream"
       IN  m.registered = expected /\ m.put = expected

C14_Witness ==
    /\ m.phase = "result"
    /\ m.filePath = <<"d", ".", "x", "/", "a", ".", "b", ".", "P", "D", "F">>
    /\ m.registered = "application/pdf"

\* C15: the attempt counter stays within 0..maxAttempts and no invocation
\* issues more than maxAttempts listing fetches.
C15_AttemptsBounded ==
    \A i \in Inv :
        /\ attempts[i] \in 0..maxAttempts
        /\ calls[i].list <= maxAttempts
        /\ calls[i].sleep <= maxAttempts

C15_Witness ==
    \E i \in Inv :
        /\ Uploading(i) /\ pc[i] = "done"
        /\ attempts[i] = maxAttempts /\ calls[i].list = maxAttempts

\* C16: within one upload the transfer is sent only after a successful
\* registration, the first sleep starts only after a successful transfer,
\* every listing fetch follows the sleep of its tick, and a tick starts only
\* when the tick before it has fetched, matched nothing and been counted.
C16_StrictOrder ==
    \A i \in Inv :
        Uploading(i)
        => /\ pc[i] \in {"readFile", "transfer"}
                 => response[i].of = "register" /\ ~Failed(response[i].status)
           /\ (pc[i] = "readFile" \/ calls[i].transfer >= 1)
                 => calls[i].register = 1 /\ uploadData[i] # "null"
           /\ calls[i].sleep >= 1 => calls[i].transfer = 1
           /\ (pc[i] = "sleep" /\ calls[i].sleep = 1)
                 => response[i].of = "transfer" /\ ~Failed(response[i].status)
           /\ calls[i].list <= calls[i].sleep
           /\ calls[i].sleep <= calls[i].list + 1
           /\ pc[i] = "sleep"
                 => calls[i].sleep = attempts[i] + 1 /\ calls[i].list = attempts[i]
           /\ pc[i] = "poll"
                 => calls[i].sleep = attempts[i] + 1 /\ calls[i].list = attempts[i] + 1
           /\ (pc[i] = "sleep" /\ attempts[i] >= 1)
                 => /\ response[i].of = "list" /\ ~Failed(response[i].status)
                    /\ processedFile[i] = Null

C16_Witness ==
    \E i \in Inv :
        /\ Uploading(i) /\ pc[i] = "poll"
        /\ calls[i] = [register |-> 1, transfer |-> 1, sleep |-> 3, list |-> 3]

\* C17: an invocation registers at most once and transfers at most once;
\* list_files and get_file_details fetch the listing exactly once and neither
\* register nor transfer nor sleep.
C17_NoRetryOfWrites ==
    \A i \in Inv :
        /\ calls[i].register <= 1
        /\ calls[i].transfer <= 1
        /\ tool[i] \in {"list_files", "get_file_details"}
              => calls[i] = [register |-> 0, transfer |-> 0, sleep |-> 0, list |-> 1]
        /\ ~Uploading(i) => calls[i].register = 0 /\ calls[i].transfer = 0

C17_Witness ==
    \E i \in Inv :
        /\ Uploading(i) /\ pc[i] = "done"
        /\ reply[i].value.kind = "Pending"
        /\ calls[i] = [register |-> 1, transfer |-> 1, sleep |-> maxAttempts,
                       list |-> maxAttempts]

\* ------------------------------------------------ invocations in flight together
\* A host that does not await: both invocations run, their steps interleaved
\* at the await points.  The backend issues each registration its own uploadId.
ConcTools == {"upload_and_process", "list_files"}
ConcPath == <<"c">>
ConcStatuses == {200, 500}
ConcTicket(i) == IF i = 1 THEN "u1" ELSE "u2"
ConcBodies ==
    { [hasFiles |-> TRUE, files |-> <<>>],
      [hasFiles |-> TRUE,
       files |-> << [fileName |-> <<"x", "a", ".", "b">>, uploadId |-> "u1",
                     status |-> "processed"] >>],
      [hasFiles |-> TRUE,
       files |-> << [fileName |-> <<"x", "a", ".", "b">>, uploadId |-> "u2",
                     status |-> "pending"] >>] }

NextConc ==
    \/ \E i \in Inv, name \in ConcTools :
          CallTool(i, name, IF name = "upload_and_process" THEN ConcPath ELSE <<>>)
    \/ \E i \in Inv, exists \in BOOLEAN : Access(i, exists)
    \/ \E i \in Inv, status \in ConcStatuses : Register(i, status, ConcTicket(i))
    \/ \E i \in Inv : ReadFile(i, TRUE)
    \/ \E i \in Inv, status \in ConcStatuses : Transfer(i, status)
    \/ \E i \in Inv : Sleep(i)
    \/ \E i \in Inv, status \in ConcStatuses, body \in ConcBodies : Poll(i, status, body)
    \/ \E i \in Inv, status \in ConcStatuses, body \in ConcBodies : ListFiles(i, status, body)
    \/ \E i \in Inv : Respond(i)

SpecConc == Init /\ [][NextConc]_vars

\* Everything one invocation holds.
Locals(i) ==
    <<pc[i], tool[i], arg[i], fileName[i], uploadData[i], response[i], attempts[i],
      processedFile[i], result[i], calls[i], reply[i]>>

\* The step an invocation is waiting for can be taken.
CanGoOn(i) ==
    /\ pc[i] = "access" => ENABLED Access(i, TRUE)
    /\ pc[i] = "register" => ENABLED Register(i, 200, ConcTicket(i))
    /\ pc[i] = "readFile" => ENABLED ReadFile(i, TRUE)
    /\ pc[i] = "transfer" => ENABLED Transfer(i, 200)
    /\ pc[i] = "sleep" => ENABLED Sleep(i)
    /\ pc[i] = "poll" => \A body \in ConcBodies : ENABLED Poll(i, 200, body)
    /\ pc[i] = "done" => ENABLED Respond(i)

\* C18: with invocations in flight together, every step changes the state of
\* one invocation only; each invocation keeps the order, the bounds and the
\* result shape it has when it runs alone, its result being shaped from its
\* own record and its own ticket; and whatever the other invocation has come
\* to - an error included - the step an invocation waits for stays possible.
C18_InvocationsIndependent ==
    /\ [](/\ C4_ResultShape
          /\ C6_ListFailureAborts
          /\ C15_AttemptsBounded
          /\ C16_StrictOrder
          /\ \A i \in Inv :
                /\ uploadData[i] \in {"null", ConcTicket(i)}
                /\ processedFile[i] # Null
                      => Matches(processedFile[i], fileName[i], uploadData[i])
                /\ CanGoOn(i))
    /\ [][\A i, j \in Inv :
             i # j => (Locals(i)' = Locals(i) \/ Locals(j)' = Locals(j))]_vars

C18_Witness ==
    /\ Uploading(1) /\ pc[1] = "done"
    /\ reply[1].value.kind = "FailedToGetFiles" /\ calls[1].list = 2
    /\ Uploading(2) /\ pc[2] = "poll" /\ calls[2].list = 3

\* ------------------------------------------------------------ every await returns
\* fs, the backend and the timer answer every request: the step an invocation
\* waits for (its pc enables one of them at a time) is eventually taken.
Await(i) ==
    \/ \E exists \in BOOLEAN : Access(i, exists)
    \/ \E status \in HttpStatuses, uploadId \in UploadIds : Register(i, status, uploadId)
    \/ \E readable \in BOOLEAN : ReadFile(i, readable)
    \/ \E status \in HttpStatuses : Transfer(i, status)
    \/ Sleep(i)
    \/ \E status \in HttpStatuses : \E body \in BodiesOf(status) : Poll(i, status, body)

Fairness == \A i \in Serial : WF_vars(Await(i))

SpecFair == Spec /\ Fairness

\* The three outcomes of an upload.
Outcome(i) ==
    IF reply[i].value.isError THEN "Error" ELSE reply[i].value.kind

\* C19: when every await returns, every upload_and_process invocation comes
\* to an end, its answer being Resolved, Pending or an error report; the poll
\* loop is left only by a tick of its own, and a loop that saw no match and no
\* failed fetch is left only when maxAttempts ticks are counted.
C19_UploadTerminates ==
    /\ \A i \in Inv : Uploading(i) ~> (pc[i] = "done")
    /\ [](\A i \in Inv :
             (Uploading(i) /\ pc[i] = "done")
             => /\ Outcome(i) \in {"Resolved", "Pending", "Error"}
                /\ reply[i].value.isError <=> reply[i].value.kind \in ErrorKinds
                /\ (Outcome(i) = "Pending" /\ processedFile[i] = Null)
                      => attempts[i] = maxAttempts /\ calls[i].list = maxAttempts)
    /\ [][\A i \in Inv :
             (pc[i] \in {"sleep", "poll"} /\ pc'[i] \notin {"sleep", "poll"})
             => /\ pc[i] = "poll" /\ pc'[i] = "done"
                /\ \/ reply'[i].value.kind = "FailedToGetFiles"
                   \/ processedFile'[i] # Null
                   \/ attempts'[i] = maxAttempts]_vars

C19_Witness ==
    \E i \in Inv :
        /\ Uploading(i) /\ pc[i] = "done"
        /\ Outcome(i) = "Pending" /\ processedFile[i] = Null
        /\ attempts[i] = maxAttempts

\* A name that is a "." followed by characters other than "." and "/".
DotName(name) ==
    /\ Len(name) >= 2
    /\ name[1] = "."
    /\ \A k \in 2..Len(name) : name[k] \notin {".", "/"}

\* C20: for an uploaded file whose whole name is a dot-name, a tick with a
\* non-empty listing matches the first record of the listing, whatever its
\* fileName and uploadId, ends the loop and shapes the result by that record's
\* status alone; a tick with an empty listing matches nothing and the loop
\* goes on while attempts are left.
C20_DotNameMatchesFirstRecord ==
    (m.phase = "tick" /\ DotName(m.fileName))
    => IF m.files = <<>>
       THEN /\ m.result = Null
            /\ m.out.again <=> m.att + 1 < maxAttempts
       ELSE /\ m.result = m.files[1]
            /\ ~m.out.again
            /\ m.shaped.kind = (IF m.files[1].status = "processed" THEN "Resolved"
                                                                   ELSE "Pending")
            /\ m.shaped.uploadId = m.uploadId

C20_Witness ==
    /\ m.phase = "tick" /\ DotName(m.fileName)
    /\ Len(m.files) = 2
    /\ m.files[1].uploadId # m.uploadId
    /\ m.files[2].uploadId = m.uploadId
    /\ m.shaped.kind = "Resolved"
    /\ m.shaped.file = m.files[1]

====
